---------------------------- MODULE Spec2Model ----------------------------
(***************************************************************************)
(* Recipe backend (backend/api, backend/recipes): the relational store,    *)
(* the favorite / cart membership toggle, the recipe write path with its   *)
(* serializer validation, the recipe read flags and the shopping-list      *)
(* export (aggregation and PDF rendering).                                 *)
(*                                                                         *)
(* Amounts stored in IngredientAmount.amount (a two-digit decimal) are     *)
(* integers counting hundredths.  Amounts submitted in a request are       *)
(* integers counting thousandths, so that 0.009 and 0.01 are both inputs.  *)
(* HTTP statuses are their numbers; an unhandled exception is status 500   *)
(* with the exception's name in the response's error field.                *)
(***************************************************************************)
EXTENDS Integers, Sequences, FiniteSets, Bags, TLC

(***************************************************************************)
(* Bounds of the model.                                                    *)
(***************************************************************************)
\* Add requests that may be between their recipe lookup and their insert.
MaxInFlight == 2
\* Rows of IngredientAmount in the stores the aggregation is run on.
MaxRows == 4
\* Longest tag list and ingredient list of a recipe write request.
MaxLen == 2
\* Most aggregated lines handed to the renderer.
MaxLines == 33

(***************************************************************************)
(* The data the stores are populated with.                                 *)
(***************************************************************************)
Users == {"u1", "u2"}
Anonymous == "anon"
Callers == Users \cup {Anonymous}
RecipeIds == {1, 2}
TagIds == {1, 2}
IngredientIds == {1, 2, 3}
\* Ingredient rows: (name, unit) is unique, a name alone is not.
Ingredient ==
  [i \in IngredientIds |->
     CASE i = 1 -> [name |-> "flour", unit |-> "g"]
       [] i = 2 -> [name |-> "flour", unit |-> "cup"]
       [] OTHER -> [name |-> "salt", unit |-> "g"]]
\* Stored amounts, in hundredths: 1.75 and 2.50.
StoredAmounts == {175, 250}
Models == {"Favorite", "Cart"}

\* Python's None.
None == "None"

VARIABLES
  atomicRequests,     \* the deployment's ATOMIC_REQUESTS setting
  recipes,            \* Recipe table: id -> [author, time]
  recipeTags,         \* Recipe.tags link table: <<recipe, tag>>
  recipeIngredients,  \* Recipe.ingredients link table: <<recipe, ingredient>>
  amounts,            \* IngredientAmount table: [recipe, ingredient, amount]
  member,             \* Favorite and Cart tables: model -> <<user, recipe>>
  pending,            \* add requests past their lookup: bag of [model, user, pk]
  request,            \* the recipe write request being served
  resp,               \* the last response sent
  page                \* the canvas of the document being rendered

vars == <<atomicRequests, recipes, recipeTags, recipeIngredients, amounts,
          member, pending, request, resp, page>>
store == <<recipes, recipeTags, recipeIngredients, amounts, member>>


(***************************************************************************)
(* Responses.                                                              *)
(***************************************************************************)
\* No document: nothing drawn, nothing left to draw.
NoPage ==
  [todo |-> <<>>, i |-> 0, height |-> 0, title |-> <<>>, drawn |-> <<>>,
   shown |-> 0]

\* A response: status, the unhandled exception's name (500 only), the keys of
\* a field-keyed validation error (400 only) and the body's parts: the flags
\* of a recipe read, the lines of an export and the user whose cart they are.
Response(op, status, error) ==
  [op |-> op, status |-> status, error |-> error, fields |-> {},
   user |-> None, final_list |-> <<>>, is_favorited |-> FALSE,
   is_in_cart |-> FALSE]

NoResponse == Response("none", 0, "")

\* permission_classes=[IsAuthenticated] of the favorite, cart and
\* download_cart routes: any other caller is answered 401 before the view.
IsAuthenticated(caller) == caller \in Users

(***************************************************************************)
(* The store's constraints (recipes/models.py).                            *)
(***************************************************************************)
\* Fields of the Recipe model.
RecipeModelFields ==
  {"id", "author", "name", "image", "text", "ingredients", "tags", "time",
   "pub_date"}

\* Reverse accessors the foreign keys to User declare (their related_name).
UserRelatedNames == {"recipes", "favorites", "carts"}

\* UniqueConstraint unique_favorite / unique_cart on (user, recipe).
UniqueMember(m, user, pk) == <<user, pk>> \notin member[m]

\* ForeignKey(Recipe): the referenced recipe row must exist.
RecipeExists(pk) == pk \in DOMAIN recipes

\* UniqueConstraint unique_ingredient_amount on (ingredient, recipe).
UniqueAmount(rows, r, i) ==
  ~ \E a \in rows : a.recipe = r /\ a.ingredient = i

\* Mutant: the cart rows of a deleted recipe are left behind.
CascadeMemberKeepsCart(pk) ==
  [m \in Models |->
     IF m = "Cart" THEN member[m] ELSE {row \in member[m] : row[2] # pk}]

\* on_delete=models.CASCADE of the recipe foreign keys of Favorite and Cart.
CascadeMember(pk) ==
  [m \in Models |-> {row \in member[m] : row[2] # pk}]

\* on_delete=models.CASCADE of IngredientAmount.recipe.
CascadeAmounts(pk) == {a \in amounts : a.recipe # pk}

\* The rows of the two link tables of Recipe go with the recipe.
CascadeLinks(links, pk) == {l \in links : l[1] # pk}

(***************************************************************************)
(* Membership toggle (api/views.py: favorite, cart, add_to, delete_from).  *)
(***************************************************************************)
\* ShortRecipeSerializer.Meta.fields.
ShortRecipeFields == {"id", "name", "image", "cooking_time"}

\* serializer.data of a ModelSerializer: a name in Meta.fields that the model
\* does not have raises ImproperlyConfigured when the fields are built.
ShortRecipeData ==
  IF ShortRecipeFields \subseteq RecipeModelFields
    THEN None ELSE "ImproperlyConfigured"

\* add_to, first statement: get_object_or_404(Recipe, id=pk).  The request
\* then holds the recipe and has not yet written.
AddLookup(m, caller, pk) ==
  /\ IsAuthenticated(caller)
  /\ UNCHANGED <<atomicRequests, store, request, page>>
  /\ IF ~RecipeExists(pk)
       THEN /\ resp' = Response("add", 404, "")
            /\ UNCHANGED pending
       ELSE /\ BagCardinality(pending) < MaxInFlight
            /\ pending' =
                 pending (+) SetToBag({[model |-> m, user |-> caller,
                                        pk |-> pk]})
            /\ UNCHANGED resp

\* model.objects.create(user=user, recipe=recipe): the table after the insert,
\* or the table as it was when a constraint rejects the row.
InsertMember(m, user, pk) ==
  IF RecipeExists(pk) /\ UniqueMember(m, user, pk)
    THEN [member EXCEPT ![m] = @ \cup {<<user, pk>>}]
    ELSE member

\* add_to, the rest: the insert, then the rendering of the response.  An
\* IntegrityError of the insert is not caught.  An exception after the insert
\* undoes the insert only when the request runs in a transaction.
AddInsert(rq) ==
  /\ rq \in BagToSet(pending)
  /\ pending' = pending (-) SetToBag({rq})
  /\ UNCHANGED <<atomicRequests, recipes, recipeTags, recipeIngredients,
                 amounts, request, page>>
  /\ LET base == Response("add", 0, "")
         inserted == InsertMember(rq.model, rq.user, rq.pk)
     IN IF ~RecipeExists(rq.pk)
          THEN \* the recipe row went away after the lookup: with the check
               \* deferred to the commit, the rendering fails first
               /\ member' = member
               /\ \E err \in IF atomicRequests /\ ShortRecipeData # None
                               THEN {"IntegrityError", ShortRecipeData}
                               ELSE {"IntegrityError"} :
                    resp' = [base EXCEPT !.status = 500, !.error = err]
          ELSE IF ~UniqueMember(rq.model, rq.user, rq.pk)
            THEN /\ member' = member
                 /\ resp' = [base EXCEPT !.status = 500,
                                         !.error = "IntegrityError"]
            ELSE IF ShortRecipeData # None
              THEN /\ member' = IF atomicRequests THEN member ELSE inserted
                   /\ resp' = [base EXCEPT !.status = 500,
                                           !.error = ShortRecipeData]
              ELSE /\ member' = inserted
                   /\ resp' = [base EXCEPT !.status = 201]

\* Mutant: the filter selects by user alone.
DeletedFromEveryRecipe(m, user, pk) ==
  [member EXCEPT ![m] = {row \in @ : row[1] # user}]

\* model.objects.filter(user=user, recipe__id=pk).delete()
DeletedFrom(m, user, pk) ==
  [member EXCEPT ![m] = {row \in @ : ~(row[1] = user /\ row[2] = pk)}]

\* delete_from: deleting the rows the filter selects, none included, is 204.
DeleteFrom(m, caller, pk) ==
  /\ IsAuthenticated(caller)
  /\ UNCHANGED <<atomicRequests, recipes, recipeTags, recipeIngredients,
                 amounts, pending, request, page>>
  /\ member' = DeletedFrom(m, caller, pk)
  /\ resp' = Response("remove", 204, "")

(***************************************************************************)
(* Recipe delete (RecipeViewSet is a ModelViewSet: destroy deletes the     *)
(* instance, and the delete cascades along the foreign keys).  The caller  *)
(* is the recipe's author.                                                 *)
(***************************************************************************)
DestroyRecipe(caller, pk) ==
  /\ UNCHANGED <<atomicRequests, pending, request, page>>
  /\ IF ~RecipeExists(pk)
       THEN /\ resp' = Response("destroy", 404, "")
            /\ UNCHANGED store
       ELSE /\ caller = recipes[pk].author
            /\ recipes' = [r \in DOMAIN recipes \ {pk} |-> recipes[r]]
            /\ recipeTags' = CascadeLinks(recipeTags, pk)
            /\ recipeIngredients' = CascadeLinks(recipeIngredients, pk)
            /\ amounts' = CascadeAmounts(pk)
            /\ member' = CascadeMember(pk)
            /\ resp' = Response("destroy", 204, "")

(***************************************************************************)
(* Recipe read (api/serializers.py: RecipeListSerializer).                 *)
(***************************************************************************)
\* A computed value, or the exception raised while computing it.
Value(v) == [raised |-> None, value |-> v]
Raised(e) == [raised |-> e, value |-> FALSE]

\* user.is_authenticated and user.favorites.filter(recipe=obj).exists()
get_is_favorited(caller, pk) ==
  IF ~IsAuthenticated(caller) THEN Value(FALSE)
  ELSE IF "favorites" \notin UserRelatedNames THEN Raised("AttributeError")
  ELSE Value(<<caller, pk>> \in member["Favorite"])

\* user.is_authenticated and user.cart.recipes.filter(...).exists(), with
\* Cart.DoesNotExist caught: an AttributeError is not a Cart.DoesNotExist.
get_is_in_cart(caller, pk) ==
  IF ~IsAuthenticated(caller) THEN Value(FALSE)
  ELSE IF "cart" \notin UserRelatedNames THEN Raised("AttributeError")
  ELSE Value(<<caller, pk>> \in member["Cart"])

\* retrieve: RecipeSerializer.to_representation hands the instance to
\* RecipeListSerializer, whose fields are computed in order.
RetrieveRecipe(caller, pk) ==
  /\ UNCHANGED <<atomicRequests, store, pending, request, page>>
  /\ LET base == Response("retrieve", 200, "")
         fav == get_is_favorited(caller, pk)
         cart == get_is_in_cart(caller, pk)
     IN resp' =
          IF ~RecipeExists(pk) THEN [base EXCEPT !.status = 404]
          ELSE IF fav.raised # None
            THEN [base EXCEPT !.status = 500, !.error = fav.raised]
          ELSE IF cart.raised # None
            THEN [base EXCEPT !.status = 500, !.error = cart.raised]
          ELSE [base EXCEPT !.is_favorited = fav.value,
                            !.is_in_cart = cart.value]


(***************************************************************************)
(* Shopping-list export (api/views.py: download_cart).                     *)
(***************************************************************************)
\* Every sequence that lists the members of S once: the orders in which an
\* unordered query may return its rows.
RECURSIVE Orderings(_)
Orderings(S) ==
  IF S = {} THEN {<<>>}
  ELSE UNION {{<<x>> \o rest : rest \in Orderings(S \ {x})} : x \in S}

\* IngredientAmount.objects.filter(recipe__carts__user=request.user): the
\* amount rows joined to the cart rows of the user.
CartAmounts(user) ==
  {a \in amounts : <<user, a.recipe>> \in member["Cart"]}

\* values_list('ingredient__name', 'ingredient__unit', 'amount') of a row.
ValuesList(a) ==
  <<Ingredient[a.ingredient].name, Ingredient[a.ingredient].unit, a.amount>>

\* name not in final_list (a dict, kept here in insertion order).
NotIn(name, final_list) ==
  \A k \in DOMAIN final_list : final_list[k].name # name

\* Mutant: a known name takes the item's amount in place of the sum.
AccumulateLast(final_list, item) ==
  IF NotIn(item[1], final_list)
    THEN Append(final_list,
                [name |-> item[1], unit |-> item[2], amount |-> item[3]])
    ELSE [k \in DOMAIN final_list |->
            IF final_list[k].name = item[1]
              THEN [final_list[k] EXCEPT !.amount = item[3]]
              ELSE final_list[k]]

\* The body of the loop over the items: a new name opens an entry with the
\* item's unit and amount, a known name adds the amount to its entry.
Accumulate(final_list, item) ==
  IF NotIn(item[1], final_list)
    THEN Append(final_list,
                [name |-> item[1], unit |-> item[2], amount |-> item[3]])
    ELSE [k \in DOMAIN final_list |->
            IF final_list[k].name = item[1]
              THEN [final_list[k] EXCEPT !.amount = @ + item[3]]
              ELSE final_list[k]]

\* for item in ingredients: ...
RECURSIVE Aggregate(_, _)
Aggregate(items, final_list) ==
  IF items = <<>> THEN final_list
  ELSE Aggregate(Tail(items), Accumulate(final_list, Head(items)))

\* Coordinates of the drawing calls.
TitleX == 200
TitleY == 800
LineX == 75
FirstLineY == 750
LineStep == 25

\* canvas.Canvas(response), the title drawn, height = 750, enumerate from 1.
NewPage(final_list) ==
  [todo |-> final_list, i |-> 1, height |-> FirstLineY,
   title |-> <<[x |-> TitleX, y |-> TitleY]>>, drawn |-> <<>>, shown |-> 0]

\* The body of the loop over final_list.items(): the line is drawn at the
\* cursor, and the cursor moves down one step.
DrawLine(pg) ==
  [pg EXCEPT
     !.drawn = Append(@, [x |-> LineX, y |-> pg.height, i |-> pg.i,
                          name |-> Head(pg.todo).name,
                          amount |-> Head(pg.todo).amount,
                          unit |-> Head(pg.todo).unit,
                          sheet |-> pg.shown + 1]),
     !.height = @ - LineStep,
     !.i = @ + 1,
     !.todo = Tail(@)]

\* page.showPage() after the loop.
ShowPage(pg) == [pg EXCEPT !.shown = @ + 1]

\* The whole rendering of a canvas.
RECURSIVE Render(_)
Render(pg) == IF pg.todo = <<>> THEN ShowPage(pg) ELSE Render(DrawLine(pg))

\* Mutant: the export empties the cart it has listed.
DownloadCartEmptying(caller) ==
  /\ IsAuthenticated(caller)
  /\ UNCHANGED <<atomicRequests, recipes, recipeTags, recipeIngredients,
                 amounts, pending, request>>
  /\ member' = [member EXCEPT !["Cart"] = {row \in @ : row[1] # caller}]
  /\ \E items \in Orderings(CartAmounts(caller)) :
       LET final_list ==
             Aggregate([k \in DOMAIN items |-> ValuesList(items[k])], <<>>)
       IN /\ page' = Render(NewPage(final_list))
          /\ resp' = [Response("download_cart", 200, "")
                        EXCEPT !.user = caller, !.final_list = final_list]

\* download_cart: one query, the aggregation of its rows in the order the
\* store returns them, and the document.
DownloadCart(caller) ==
  /\ UNCHANGED <<atomicRequests, store, pending, request>>
  /\ IF ~IsAuthenticated(caller)
       THEN /\ resp' = Response("download_cart", 401, "")
            /\ page' = NoPage
       ELSE \E items \in Orderings(CartAmounts(caller)) :
              LET final_list ==
                    Aggregate([k \in DOMAIN items |-> ValuesList(items[k])],
                              <<>>)
              IN /\ page' = Render(NewPage(final_list))
                 /\ resp' = [Response("download_cart", 200, "")
                               EXCEPT !.user = caller,
                                      !.final_list = final_list]


(***************************************************************************)
(* Recipe write requests (api/serializers.py: RecipeSerializer).           *)
(*                                                                         *)
(* A payload lists the fields it supplies; tags is a list of tag keys,     *)
(* ingredients a list of [id, amount] lines with the amount in             *)
(* thousandths, time a number of minutes.  name, image and text are        *)
(* always supplied and valid.                                              *)
(***************************************************************************)
\* The tag keys of the requests: those of the Tag rows and one no row has.
TagKeys == TagIds \cup {9}
\* 0.009, 0.01 and 1, in thousandths.
RawAmounts == {9, 10, 1000}
RawTimes == {0, 30}

SeqsUpTo(S, n) == UNION {[1..k -> S] : k \in 0..n}

Lines == [id : IngredientIds, amount : RawAmounts]

\* The payloads whose lists have at most n entries.
Payloads(n) ==
  [supplied : {{"ingredients", "tags", "time"}, {"ingredients", "time"},
               {"tags", "time"}},
   tags : SeqsUpTo(TagKeys, n),
   ingredients : SeqsUpTo(Lines, n),
   time : RawTimes]

\* A field the payload does not supply carries the empty list.
WellFormed(payload) ==
  /\ "tags" \notin payload.supplied => payload.tags = <<>>
  /\ "ingredients" \notin payload.supplied => payload.ingredients = <<>>

\* Outcomes of a validation step.
Valid(data) == [kind |-> "valid", data |-> data, errors |-> {}, exc |-> None]
Invalid(keys) == [kind |-> "invalid", data |-> <<>>, errors |-> keys,
                  exc |-> None]
Raises(exc) == [kind |-> "raised", data |-> <<>>, errors |-> {}, exc |-> exc]
Skipped == [kind |-> "skip", data |-> <<>>, errors |-> {}, exc |-> None]

\* serializers.IntegerField: the input must be a whole number.
IntegerField(raw) ==
  IF raw % 1000 = 0 THEN Valid(raw \div 1000) ELSE Invalid({"amount"})

\* AddIngredientSerializer(many=True): every line's id must be an Ingredient
\* row's key and its amount an integer; an empty list is let through.
IngredientsField(lines) ==
  IF \E k \in DOMAIN lines :
       \/ lines[k].id \notin IngredientIds
       \/ IntegerField(lines[k].amount).kind # "valid"
    THEN Invalid({"ingredients"})
    ELSE Valid([k \in DOMAIN lines |->
                  [id |-> lines[k].id,
                   amount |-> IntegerField(lines[k].amount).data]])

\* validate_tags(self, data): data.get('tags') needs a mapping.
validate_tags(data) ==
  IF data.type # "dict" THEN Raises("AttributeError")
  ELSE IF "tags" \notin DOMAIN data.value \/ data.value["tags"] = <<>>
    THEN Invalid({"tags"})
  ELSE IF \E j, k \in DOMAIN data.value["tags"] :
            j < k /\ data.value["tags"][j] = data.value["tags"][k]
    THEN Invalid({"tags"})
  ELSE Valid(None)

\* PrimaryKeyRelatedField(queryset=Tag.objects.all(), many=True): every key
\* must be a Tag row's; an empty list is let through.  The serializer's
\* validate_tags method is then called with the field's value, a list.
TagsField(tags) ==
  IF \E k \in DOMAIN tags : tags[k] \notin TagIds
    THEN Invalid({"tags"})
    ELSE LET v == validate_tags([type |-> "list", value |-> tags])
         IN IF v.kind = "valid" THEN Valid(v.data) ELSE v

\* Recipe.time: PositiveSmallIntegerField with MinValueValidator(1).
TimeField(raw) == IF raw < 1 THEN Invalid({"time"}) ELSE Valid(raw)

\* A required field that is not supplied is an error, or is left out of the
\* data when the update is partial.
Field(payload, partial, name, outcome) ==
  IF name \in payload.supplied THEN outcome
  ELSE IF partial THEN Skipped ELSE Invalid({name})

\* Serializer.to_internal_value: the fields in the order of Meta.fields; a
\* validation error is collected under the field's name, any other exception
\* ends the request at once.
to_internal_value(payload, partial) ==
  LET ing == Field(payload, partial, "ingredients",
                   IngredientsField(payload.ingredients))
      tag == Field(payload, partial, "tags", TagsField(payload.tags))
      tim == Field(payload, partial, "time", TimeField(payload.time))
      bad == (IF ing.kind = "invalid" THEN {"ingredients"} ELSE {})
               \cup (IF tag.kind = "invalid" THEN {"tags"} ELSE {})
               \cup (IF tim.kind = "invalid" THEN {"time"} ELSE {})
      got == {f \in {"ingredients", "tags", "time"} :
                (CASE f = "ingredients" -> ing
                   [] f = "tags" -> tag
                   [] OTHER -> tim).kind = "valid"}
  IN IF tag.kind = "raised" THEN tag
     ELSE IF bad # {} THEN Invalid(bad)
     ELSE Valid([f \in got |->
                   CASE f = "ingredients" -> ing.data
                     [] f = "tags" -> tag.data
                     [] OTHER -> tim.data])

\* 0.01, in thousandths.
MinAmount == 10

\* The loop of validate over the ingredient lines, from line k on: the key of
\* the first violation, or None.
RECURSIVE FirstLineError(_, _)
FirstLineError(ingredients, k) ==
  IF k > Len(ingredients) THEN None
  ELSE IF \E j \in 1..(k - 1) : ingredients[j].id = ingredients[k].id
    THEN "ingredients"
  ELSE IF ingredients[k].amount * 1000 < MinAmount THEN "amount"
  ELSE FirstLineError(ingredients, k + 1)

\* RecipeSerializer.validate(data).  data.get of a key the data does not have
\* is None: len(None) and None < 1 raise TypeError.
validate(data) ==
  IF "ingredients" \notin DOMAIN data THEN Raises("TypeError")
  ELSE IF Len(data["ingredients"]) = 0 THEN Invalid({"ingredients"})
  ELSE IF FirstLineError(data["ingredients"], 1) # None
    THEN Invalid({FirstLineError(data["ingredients"], 1)})
  ELSE IF "cooking_time" \notin DOMAIN data THEN Raises("TypeError")
  ELSE IF data["cooking_time"] < 1 THEN Invalid({"cooking_time"})
  ELSE Valid(data)

\* Serializer.run_validation: the fields, then validate.
run_validation(payload, partial) ==
  LET fields == to_internal_value(payload, partial)
  IN IF fields.kind = "valid" THEN validate(fields.data) ELSE fields


\* The outcome of a save: the tables after it, or the exception that rolled
\* its transaction back.
Saved(rs, ts, is, as) ==
  [exc |-> None, recipes |-> rs, recipeTags |-> ts, recipeIngredients |-> is,
   amounts |-> as, pk |-> 0]
Failed(exc) ==
  [exc |-> exc, recipes |-> recipes, recipeTags |-> recipeTags,
   recipeIngredients |-> recipeIngredients, amounts |-> amounts, pk |-> 0]

\* The key the store gives the next Recipe row.
NextRecipeId ==
  1 + CHOOSE n \in RecipeIds \cup DOMAIN recipes :
        \A m \in RecipeIds \cup DOMAIN recipes : m <= n

\* The rows __create_ingredients_amounts__ hands to bulk_create; a whole
\* amount n is stored as n.00.
NewAmounts(ingredients, pk) ==
  {[recipe |-> pk, ingredient |-> ingredients[k].id,
    amount |-> ingredients[k].amount * 100] : k \in DOMAIN ingredients}

\* bulk_create under unique_ingredient_amount: no new row may repeat the
\* (ingredient, recipe) of a stored row or of another new row.
BulkCreateAllowed(ingredients, pk) ==
  /\ \A k \in DOMAIN ingredients :
       UniqueAmount(amounts, pk, ingredients[k].id)
  /\ \A j, k \in DOMAIN ingredients :
       j # k => ingredients[j].id # ingredients[k].id

\* RecipeSerializer.create, in one transaction.
create(validated_data, author) ==
  LET pk == NextRecipeId
  IN IF "tags" \notin DOMAIN validated_data
          \/ "ingredients" \notin DOMAIN validated_data
          \/ validated_data["tags"] = None
       THEN Failed("TypeError")
     ELSE IF ~BulkCreateAllowed(validated_data["ingredients"], pk)
       THEN Failed("IntegrityError")
     ELSE [Saved([r \in DOMAIN recipes \cup {pk} |->
                    IF r = pk
                      THEN [author |-> author, time |-> validated_data["time"]]
                      ELSE recipes[r]],
                 recipeTags \cup
                   {<<pk, validated_data["tags"][k]>> :
                      k \in DOMAIN validated_data["tags"]},
                 recipeIngredients,
                 amounts \cup NewAmounts(validated_data["ingredients"], pk))
             EXCEPT !.pk = pk]

\* RecipeSerializer.update, in one transaction: the tag links are cleared and
\* set, instance.ingredients.clear() empties the recipe's rows of the
\* Recipe.ingredients link table, and the submitted lines are bulk-created
\* beside the IngredientAmount rows the recipe already has.
update(pk, validated_data) ==
  IF "tags" \notin DOMAIN validated_data
       \/ "ingredients" \notin DOMAIN validated_data
       \/ validated_data["tags"] = None
    THEN Failed("TypeError")
  ELSE IF ~BulkCreateAllowed(validated_data["ingredients"], pk)
    THEN Failed("IntegrityError")
  ELSE [Saved([recipes EXCEPT ![pk].time =
                 IF "time" \in DOMAIN validated_data
                   THEN validated_data["time"] ELSE @],
              CascadeLinks(recipeTags, pk) \cup
                {<<pk, validated_data["tags"][k]>> :
                   k \in DOMAIN validated_data["tags"]},
              CascadeLinks(recipeIngredients, pk),
              amounts \cup NewAmounts(validated_data["ingredients"], pk))
          EXCEPT !.pk = pk]

\* A recipe write request.
NoRequest ==
  [op |-> "none", caller |-> Anonymous, pk |-> 0,
   payload |-> [supplied |-> {}, tags |-> <<>>, ingredients |-> <<>>,
                time |-> 0],
   state |-> "none"]

WriteRequest(op, caller, pk, payload) ==
  [op |-> op, caller |-> caller, pk |-> pk, payload |-> payload,
   state |-> "received"]

\* The create, update and partial_update routes of RecipeViewSet: the
\* instance is looked up (update), the payload validated and the serializer
\* saved.  The caller is authenticated and, for an update, the author.
ServeWrite(rq) ==
  /\ rq.op \in {"create", "update", "partial_update"}
  /\ rq.caller \in Users
  /\ rq.op # "create" /\ RecipeExists(rq.pk) => rq.caller = recipes[rq.pk].author
  /\ UNCHANGED <<atomicRequests, member, pending, page>>
  /\ LET base == Response(rq.op, 0, "")
         checked == run_validation(rq.payload, rq.op = "partial_update")
         saved == IF rq.op = "create"
                    THEN create(checked.data, rq.caller)
                    ELSE update(rq.pk, checked.data)
     IN IF rq.op # "create" /\ ~RecipeExists(rq.pk)
          THEN /\ resp' = [base EXCEPT !.status = 404]
               /\ UNCHANGED <<recipes, recipeTags, recipeIngredients, amounts>>
        ELSE IF checked.kind = "invalid"
          THEN /\ resp' = [base EXCEPT !.status = 400,
                                       !.fields = checked.errors]
               /\ UNCHANGED <<recipes, recipeTags, recipeIngredients, amounts>>
        ELSE IF checked.kind = "raised"
          THEN /\ resp' = [base EXCEPT !.status = 500, !.error = checked.exc]
               /\ UNCHANGED <<recipes, recipeTags, recipeIngredients, amounts>>
        ELSE /\ resp' = IF saved.exc # None
                          THEN [base EXCEPT !.status = 500,
                                            !.error = saved.exc]
                          ELSE [base EXCEPT
                                  !.status = IF rq.op = "create"
                                               THEN 201 ELSE 200]
             /\ recipes' = saved.recipes
             /\ recipeTags' = saved.recipeTags
             /\ recipeIngredients' = saved.recipeIngredients
             /\ amounts' = saved.amounts

(***************************************************************************)
(* The stores the runs start from: two recipes by two authors, with their  *)
(* tag links and ingredient lines.  The Recipe.ingredients link table is   *)
(* written by no code and starts empty.                                    *)
(***************************************************************************)
InitRecipes ==
  [r \in RecipeIds |-> [author |-> IF r = 1 THEN "u1" ELSE "u2", time |-> 30]]
InitTags == {<<1, 1>>, <<2, 1>>, <<2, 2>>}
InitAmounts ==
  {[recipe |-> 1, ingredient |-> 1, amount |-> 250],
   [recipe |-> 1, ingredient |-> 3, amount |-> 175],
   [recipe |-> 2, ingredient |-> 1, amount |-> 175],
   [recipe |-> 2, ingredient |-> 2, amount |-> 250]}

Pairs == Users \X RecipeIds

InitCatalog ==
  /\ recipes = InitRecipes
  /\ recipeTags = InitTags
  /\ recipeIngredients = {}

(***************************************************************************)
(* Spec: the requests of the service, interleaved.                         *)
(***************************************************************************)
Init ==
  /\ atomicRequests \in BOOLEAN
  /\ InitCatalog
  /\ amounts = InitAmounts
  /\ member = [m \in Models |-> {}]
  /\ pending = EmptyBag
  /\ request = NoRequest
  /\ resp = NoResponse
  /\ page = NoPage

\* The write requests of the interleaved runs: a payload with one tag and one
\* line, which repeats an ingredient the first recipe has, sent as a create,
\* as an update and, without its tags, as a partial update.
SamplePayload ==
  [supplied |-> {"ingredients", "tags", "time"}, tags |-> <<1>>,
   ingredients |-> <<[id |-> 1, amount |-> 1000]>>, time |-> 30]

SampleWrites ==
  {WriteRequest("create", "u2", 0, SamplePayload),
   WriteRequest("update", InitRecipes[1].author, 1, SamplePayload),
   WriteRequest("partial_update", InitRecipes[1].author, 1,
                [SamplePayload EXCEPT !.supplied = {"ingredients", "time"},
                                      !.tags = <<>>])}

Add == \E m \in Models, caller \in Users, pk \in RecipeIds :
         AddLookup(m, caller, pk)
Insert == \E rq \in BagToSet(pending) : AddInsert(rq)
Remove == \E m \in Models, caller \in Users, pk \in RecipeIds :
            DeleteFrom(m, caller, pk)
Destroy == \E caller \in Users, pk \in RecipeIds : DestroyRecipe(caller, pk)
Write == \E rq \in SampleWrites : ServeWrite(rq) /\ UNCHANGED request

Next == Add \/ Insert \/ Remove \/ Destroy \/ Write

Spec == Init /\ [][Next]_vars

(***************************************************************************)
(* SpecRead: recipe reads, by every caller, over every membership store.   *)
(***************************************************************************)
Retrieve == \E caller \in Callers, pk \in RecipeIds :
              RetrieveRecipe(caller, pk)

\* Every set of Favorite and Cart rows the unique constraints allow.
InitRead ==
  /\ atomicRequests \in BOOLEAN
  /\ InitCatalog
  /\ amounts = InitAmounts
  /\ member \in [Models -> SUBSET Pairs]
  /\ pending = EmptyBag
  /\ request = NoRequest
  /\ resp = NoResponse
  /\ page = NoPage

NextRead == Retrieve

SpecRead == InitRead /\ [][NextRead]_vars

(***************************************************************************)
(* SpecExport: the export, by every caller, over stores whose ingredient   *)
(* lines and carts are drawn from bounded sets.                            *)
(***************************************************************************)
AllRows == [recipe : RecipeIds, ingredient : IngredientIds,
            amount : StoredAmounts]

\* The IngredientAmount tables of at most MaxRows rows that satisfy
\* unique_ingredient_amount.
Tables ==
  {t \in SUBSET AllRows :
     /\ Cardinality(t) <= MaxRows
     /\ \A a, b \in t :
          a.recipe = b.recipe /\ a.ingredient = b.ingredient => a = b}

\* The export writes nothing, so the transaction setting plays no part.
InitExport ==
  /\ atomicRequests = FALSE
  /\ InitCatalog
  /\ amounts \in Tables
  /\ member \in {[m \in Models |-> IF m = "Cart" THEN c ELSE {}] :
                   c \in SUBSET Pairs}
  /\ pending = EmptyBag
  /\ request = NoRequest
  /\ resp = NoResponse
  /\ page = NoPage

Download == \E caller \in Callers : DownloadCart(caller)

NextExport == Download

SpecExport == InitExport /\ [][NextExport]_vars

(***************************************************************************)
(* SpecRender: the drawing loop of the export, one iteration a step, over  *)
(* aggregated lists of up to MaxLines names.                               *)
(***************************************************************************)
LongList(n) ==
  [k \in 1..n |-> [name |-> ToString(k), unit |-> "g", amount |-> 100]]

InitRender ==
  /\ atomicRequests = FALSE
  /\ InitCatalog
  /\ amounts = InitAmounts
  /\ member = [m \in Models |-> {}]
  /\ pending = EmptyBag
  /\ request = NoRequest
  /\ resp = NoResponse
  /\ \E n \in 0..MaxLines : page = NewPage(LongList(n))

DrawNext ==
  /\ page.shown = 0
  /\ page.todo # <<>>
  /\ page' = DrawLine(page)
  /\ UNCHANGED <<atomicRequests, store, pending, request, resp>>

FinishPage ==
  /\ page.shown = 0
  /\ page.todo = <<>>
  /\ page' = ShowPage(page)
  /\ resp' = [Response("download_cart", 200, "") EXCEPT
                !.final_list = [k \in DOMAIN page.drawn |->
                                  [name |-> page.drawn[k].name,
                                   unit |-> page.drawn[k].unit,
                                   amount |-> page.drawn[k].amount]]]
  /\ UNCHANGED <<atomicRequests, store, pending, request>>

NextRender == DrawNext \/ FinishPage

SpecRender == InitRender /\ [][NextRender]_vars

(***************************************************************************)
(* SpecWrite: one recipe write request, drawn from the bounded payloads,   *)
(* served over the starting store.                                         *)
(***************************************************************************)
WriteRequests(n) ==
  {WriteRequest("create", u, 0, p) :
     u \in Users, p \in {q \in Payloads(n) : WellFormed(q)}}
    \cup {WriteRequest(op, InitRecipes[r].author, r, p) :
            op \in {"update", "partial_update"}, r \in RecipeIds,
            p \in {q \in Payloads(n) : WellFormed(q)}}

InitWrite ==
  /\ atomicRequests \in BOOLEAN
  /\ InitCatalog
  /\ amounts = InitAmounts
  /\ member = [m \in Models |-> {}]
  /\ pending = EmptyBag
  /\ request \in WriteRequests(MaxLen)
  /\ resp = NoResponse
  /\ page = NoPage

Serve ==
  /\ request.state = "received"
  /\ ServeWrite(request)
  /\ request' = [request EXCEPT !.state = "answered"]

NextWrite == Serve

SpecWrite == InitWrite /\ [][NextWrite]_vars

(***************************************************************************)
(* Properties.                                                             *)
(***************************************************************************)
\* C1: every Add for an existing recipe answers 201 and stores the pair's row
\* when the pair has no row, and answers Conflict (409), leaving the table as
\* it is, when the pair has one; the pair then has exactly one row.
C1_AddCreatedOrConflict ==
  [][\A rq \in BagToSet(pending) :
       AddInsert(rq) /\ RecipeExists(rq.pk) =>
         /\ <<rq.user, rq.pk>> \in member'[rq.model]
         /\ IF <<rq.user, rq.pk>> \in member[rq.model]
              THEN resp'.status = 409 /\ member' = member
              ELSE /\ resp'.status = 201
                   /\ member' = [member EXCEPT ![rq.model] =
                                   @ \cup {<<rq.user, rq.pk>>}]]_vars

\* The amount rows of the recipes in a user's cart, and their names.
RowsInCart(user) ==
  {a \in amounts : \E row \in member["Cart"] :
                     row[1] = user /\ row[2] = a.recipe}
NameOf(a) == Ingredient[a.ingredient].name

RECURSIVE SumAmounts(_)
SumAmounts(rows) ==
  IF rows = {} THEN 0
  ELSE LET a == CHOOSE x \in rows : TRUE
       IN a.amount + SumAmounts(rows \ {a})

ExactlyAggregated(user, final_list) ==
  /\ \A j, k \in DOMAIN final_list :
       j # k => final_list[j].name # final_list[k].name
  /\ {final_list[k].name : k \in DOMAIN final_list}
       = {NameOf(a) : a \in RowsInCart(user)}
  /\ \A k \in DOMAIN final_list :
       final_list[k].amount =
         SumAmounts({a \in RowsInCart(user) : NameOf(a) = final_list[k].name})

\* C2: the export of a user lists every ingredient name of the lines of the
\* recipes in the user's cart exactly once, with the exact sum of the amounts
\* of the lines of that name, and lists no other name.
C2_ExactSumPerName ==
  resp.op = "download_cart" /\ resp.status = 200 =>
    ExactlyAggregated(resp.user, resp.final_list)

\* An export that merged lines: one name carries a sum of several amounts.
C2_Witness ==
  /\ resp.op = "download_cart"
  /\ resp.status = 200
  /\ Len(resp.final_list) = 2
  /\ \E k \in DOMAIN resp.final_list :
       resp.final_list[k].amount \notin StoredAmounts

StoreUnchanged ==
  /\ recipes = InitRecipes
  /\ recipeTags = InitTags
  /\ recipeIngredients = {}
  /\ amounts = InitAmounts

\* C3: a create request with an empty ingredient list is answered with a
\* validation error keyed ingredients, one with an empty tag list with a
\* validation error keyed tags, and nothing is stored.
C3_EmptyListsRejected ==
  request.state = "answered" /\ request.op = "create" =>
    /\ "ingredients" \in request.payload.supplied
         /\ request.payload.ingredients = <<>>
       => resp.status = 400 /\ "ingredients" \in resp.fields
            /\ StoreUnchanged
    /\ "tags" \in request.payload.supplied /\ request.payload.tags = <<>>
       => resp.status = 400 /\ "tags" \in resp.fields
            /\ StoreUnchanged

\* A payload that is valid but for its amounts: every field supplied, known
\* tags and ingredients without repeats, neither list empty, time >= 1.
OtherwiseValid(payload) ==
  /\ payload.supplied = {"ingredients", "tags", "time"}
  /\ payload.tags # <<>>
  /\ payload.ingredients # <<>>
  /\ \A k \in DOMAIN payload.tags : payload.tags[k] \in TagIds
  /\ \A j, k \in DOMAIN payload.tags :
       j # k => payload.tags[j] # payload.tags[k]
  /\ \A j, k \in DOMAIN payload.ingredients :
       j # k => payload.ingredients[j].id # payload.ingredients[k].id
  /\ payload.time >= 1

AmountsInRange(payload) ==
  \A k \in DOMAIN payload.ingredients :
    payload.ingredients[k].amount >= MinAmount

\* C4: an otherwise valid create request is accepted, and its recipe stored,
\* when every amount is at least 0.01, and rejected when one is below.
C4_AmountThreshold ==
  request.state = "answered" /\ request.op = "create"
      /\ OtherwiseValid(request.payload) =>
    IF AmountsInRange(request.payload)
      THEN resp.status = 201 /\ DOMAIN recipes # DOMAIN InitRecipes
      ELSE resp.status = 400 /\ StoreUnchanged

\* C5: no IngredientAmount, Favorite, Cart or link row references a recipe
\* that does not exist.
C5_NoDanglingRows ==
  /\ \A a \in amounts : a.recipe \in DOMAIN recipes
  /\ \A m \in Models : \A row \in member[m] : row[2] \in DOMAIN recipes
  /\ \A l \in recipeTags \cup recipeIngredients : l[1] \in DOMAIN recipes

\* A recipe was deleted while rows of the other recipe remain and an add
\* that looked the deleted recipe up has still to insert.
C5_Witness ==
  /\ resp.op = "destroy"
  /\ resp.status = 204
  /\ \E pk \in RecipeIds :
       /\ pk \notin DOMAIN recipes
       /\ \E rq \in BagToSet(pending) : rq.pk = pk
  /\ member["Cart"] # {}
  /\ member["Favorite"] # {}

\* The submitted lines as stored rows of recipe pk (hundredths).
SubmittedRows(payload, pk) ==
  {[recipe |-> pk, ingredient |-> payload.ingredients[k].id,
    amount |-> payload.ingredients[k].amount \div 10] :
     k \in DOMAIN payload.ingredients}

\* C6: an update with a valid payload succeeds, and the recipe then has
\* exactly the submitted tags and exactly the submitted lines.
C6_UpdateReplaces ==
  request.state = "answered" /\ request.op = "update"
      /\ OtherwiseValid(request.payload)
      /\ AmountsInRange(request.payload) =>
    /\ resp.status = 200
    /\ {l[2] : l \in {x \in recipeTags : x[1] = request.pk}}
         = {request.payload.tags[k] : k \in DOMAIN request.payload.tags}
    /\ {a \in amounts : a.recipe = request.pk}
         = SubmittedRows(request.payload, request.pk)

\* C7: a read of an existing recipe never fails, and returns the flags of
\* the caller: membership in Favorite and in Cart for a user, false for an
\* unauthenticated caller.
C7_ReadFlags ==
  [][\A caller \in Callers, pk \in RecipeIds :
       RetrieveRecipe(caller, pk) /\ RecipeExists(pk) =>
         /\ resp'.status = 200
         /\ resp'.is_favorited
              = (caller \in Users /\ <<caller, pk>> \in member["Favorite"])
         /\ resp'.is_in_cart
              = (caller \in Users /\ <<caller, pk>> \in member["Cart"])]_vars

\* C8: a Remove is answered 204 whether or not the pair has a row, takes
\* away the pair's row and no other row of any table, so that a second
\* Remove changes nothing.
C8_RemoveIdempotent ==
  [][resp'.op = "remove" =>
     \A m \in Models, caller \in Users, pk \in RecipeIds :
       DeleteFrom(m, caller, pk) =>
         /\ resp'.status = 204
         /\ member' = [member EXCEPT ![m] = @ \ {<<caller, pk>>}]
         /\ <<caller, pk>> \notin member[m] => member' = member
         /\ UNCHANGED <<recipes, recipeTags, recipeIngredients, amounts>>]_vars

\* A Remove was answered while rows remain in both tables.
C8_Witness ==
  /\ resp.op = "remove"
  /\ resp.status = 204
  /\ Cardinality(member["Cart"]) = 2
  /\ Cardinality(member["Favorite"]) = 3

\* C9: every line is drawn inside the page: at or above its bottom edge and
\* below the title.
C9_LinesInsidePage ==
  \A k \in DOMAIN page.drawn :
    page.drawn[k].y >= 0 /\ page.drawn[k].y < TitleY

\* C10: an export changes no table, whoever asks and whatever the cart.
C10_ExportReadsOnly ==
  [][resp'.op = "download_cart" => store' = store]_vars

\* An export of a cart that has lines was answered, and one of an empty cart
\* can be asked for: the other user's.
C10_Witness ==
  /\ resp.op = "download_cart"
  /\ resp.status = 200
  /\ resp.final_list # <<>>
  /\ \E u \in Users : \A row \in member["Cart"] : row[1] # u

=============================================================================
